---- MODULE Spec2Model ----
(***************************************************************************)
(* Echo Scribe (STT-To-TTS): the recording session of App.tsx, the        *)
(* capture-side PCM16 encoder of its onaudioprocess callback, the text &  *)
(* speech service wrappers of services/geminiService.ts and the WAV       *)
(* builder of components/AudioPlayer.tsx.                                  *)
(*                                                                         *)
(* Float samples are rationals num / SampleDen; a multiplication by a     *)
(* power of two is exact in IEEE arithmetic, and the typed-array stores   *)
(* truncate toward zero and wrap modulo 2^16 (ToInt16).                    *)
(*                                                                         *)
(* JavaScript runs each handler to completion, so a handler (up to its    *)
(* next await) is one action.  A promise reaction is a microtask: it runs *)
(* after the handler that queued it and before any other event, so every  *)
(* other action waits for the microtask queue to be empty.  A React state *)
(* update is taken as rendered before the next event is dispatched: the   *)
(* handlers read isRecording and isProcessing as last set.  The voice     *)
(* selector only picks the voice name sent to the service and is left out.*)
(***************************************************************************)
EXTENDS Integers, Sequences, FiniteSets, TLC

VARIABLES
    \* ---- React state of App (useState, part_001:11-16)
    isRecording, isProcessing, processingStep, finalAudio, error,
    \* ---- refs of App (useRef, part_001:18-22); 0 stands for null
    transcriptRef, audioContextRef, scriptProcessorRef,
    mediaStreamSourceRef, sessionPromiseRef,
    \* ---- the invocations of handleStartRecording and what each acquired
    nStarts, startPc, stream, ctx, src, proc, promise, reactions, conn,
    \* ---- the JavaScript microtask queue (promise reactions ready to run)
    microtasks,
    \* ---- the invocation of handleStopRecording in flight
    stopPc, summarizedText,
    \* ---- capture blocks and what reached each live session
    nCaptured, delivered,
    \* ---- history: what the program did (never read by the program)
    tdLog, releases, runLog, emitters, stopped,
    \* ---- AudioPlayer: the synthesized audio bytes, bufferToWav's argument
    \* ---- and its result
    synthBytes, wavIn, wavOut,
    \* ---- onaudioprocess encoder: its input block and its Int16Array
    inputData, int16

sessionVars == <<isRecording, isProcessing, processingStep, finalAudio, error,
                 transcriptRef, audioContextRef, scriptProcessorRef,
                 mediaStreamSourceRef, sessionPromiseRef,
                 nStarts, startPc, stream, ctx, src, proc, promise, reactions,
                 conn, microtasks, stopPc, summarizedText, nCaptured,
                 delivered, tdLog, releases, runLog, emitters, stopped>>
wavVars == <<synthBytes, wavIn, wavOut>>
pcmVars == <<inputData, int16>>
vars == <<sessionVars, wavVars, pcmVars>>
\* what the App's actions leave alone
otherVars == <<wavVars, pcmVars>>

(***************************************************************************)
(* Bounds of the model.                                                    *)
(***************************************************************************)
\* invocations of handleStartRecording in one run
MaxStarts == 2
\* blocks the capture callbacks deliver in one run
MaxChunks == 2
\* characters the transcript accumulator may hold
MaxTranscript == 2
\* frames of an AudioBuffer handed to bufferToWav
MaxFrames == 2
\* samples of one capture block
MaxBlock == 1
\* float resolution: samples are multiples of 1 / (32768 * SubSteps)
SubSteps == 2
\* half-width, in sample steps, of the tested windows around -1, 0 and 1
Window == 40

(***************************************************************************)
(* Program constants.                                                      *)
(***************************************************************************)
\* part_001:94  int16[i] = inputData[i] * 32768
CaptureScale == 32768
\* part_000:86  sample * 0x8000
NegScale == 32768
\* part_000:86  sample * 0x7FFF
PosScale == 32767
\* part_000:61  new ArrayBuffer(44)
HeaderBytes == 44
\* part_000:68  36 + len
RiffOverhead == 36
\* part_000:60  buffer.length * numOfChan * 2
BytesPerSample == 2
\* Int16Array element width: values wrap modulo 2^16
Int16Modulus == 65536
\* part_000:15-17  the sample rate of the synthesized audio
PlaybackRate == 24000

\* a float sample is num / SampleDen: 1.0 is SampleDen, one PCM step is SubSteps
SampleDen == CaptureScale * SubSteps

(***************************************************************************)
(* Arithmetic of the typed-array stores.                                   *)
(***************************************************************************)
Abs(x) == IF x < 0 THEN -x ELSE x

\* the float num / SampleDen times the integer k, truncated toward zero (the
\* integer part a typed-array store keeps).  The product is exact in the
\* program's doubles; here num * k is split so that no intermediate value
\* leaves the 32-bit range of the checker's integers:
\*   |num| = q * SampleDen + r1 * SubSteps + r0
ScaleTrunc(num, k) ==
    LET a  == Abs(num)
        q  == a \div SampleDen
        r  == a % SampleDen
        r1 == r \div SubSteps
        r0 == r % SubSteps
        p  == r1 * k
        m  == q * k + (p \div CaptureScale)
                + (((p % CaptureScale) * SubSteps + r0 * k) \div SampleDen)
    IN  IF num < 0 THEN -m ELSE m

\* the value an Int16Array element holds after storing the integer x
ToInt16(x) == ((x + (Int16Modulus \div 2)) % Int16Modulus) - (Int16Modulus \div 2)

\* the two bytes of an int16 as new Uint8Array(int16.buffer) shows them
\* (little-endian, two's complement)
Int16Bytes(v) == LET u == v % Int16Modulus IN <<u % 256, u \div 256>>

RECURSIVE FlatBytes(_)
FlatBytes(vs) == IF vs = <<>> THEN <<>>
                 ELSE Int16Bytes(Head(vs)) \o FlatBytes(Tail(vs))

(***************************************************************************)
(* part_001:89-95  the capture callback's encoder.                         *)
(***************************************************************************)
\* int16[i] = inputData[i] * 32768, for the sample num / SampleDen
EncodeSample(num) == ToInt16(ScaleTrunc(num, CaptureScale))

EncodeBlock(block) == [i \in 1..Len(block) |-> EncodeSample(block[i])]

\* the samples tried: windows around -1.0, 0 and 1.0, and beyond the range
FloatSamples == {n \in -(SampleDen + Window)..(SampleDen + Window) :
                    \/ Abs(n) <= Window
                    \/ Abs(Abs(n) - SampleDen) <= Window}

(***************************************************************************)
(* part_000:58-94  bufferToWav.  An AudioBuffer is                         *)
(* [numberOfChannels, sampleRate, length, channels], channels[c] the float *)
(* data of channel c (0-based in the source, 1-based here).                *)
(***************************************************************************)
\* lines 85-86 with the lower clamp at 0 instead of -1: Math.max(0, ...)
QuantizeClampZero(num) ==
    LET sample == IF num > SampleDen THEN SampleDen
                  ELSE IF num < 0 THEN 0 ELSE num
    IN  ToInt16(ScaleTrunc(sample, PosScale))
\* part_000:85-86  clamp, scale asymmetrically, store into the Int16Array
Quantize(num) ==
    LET sample == IF num > SampleDen THEN SampleDen
                  ELSE IF num < -SampleDen THEN -SampleDen ELSE num
    IN  IF sample < 0
        THEN ToInt16(ScaleTrunc(sample, NegScale))
        ELSE ToInt16(ScaleTrunc(sample, PosScale))

bufferToWav(buffer) ==
    LET numOfChan == buffer.numberOfChannels
        len == buffer.length * numOfChan * BytesPerSample
        \* part_000:82-87  one Int16 per frame, read from channel 0 only
        channelData == buffer.channels[1]
        pcm == [i \in 1..buffer.length |-> Quantize(channelData[i])]
        payload == FlatBytes(pcm)
    IN  [ riff          |-> "RIFF",
          chunkSize     |-> RiffOverhead + len,
          wave          |-> "WAVE",
          fmt           |-> "fmt ",
          fmtSize       |-> 16,
          audioFormat   |-> 1,
          numChannels   |-> numOfChan,
          sampleRate    |-> buffer.sampleRate,
          byteRate      |-> buffer.sampleRate * 2 * numOfChan,
          blockAlign    |-> numOfChan * 2,
          bitsPerSample |-> 16,
          data          |-> "data",
          dataSize      |-> len,
          pcm           |-> pcm,
          payload       |-> payload,
          byteLength    |-> HeaderBytes + Len(payload) ]

\* the buffers tried: the spec's channel counts and sample rates
ChannelCounts == {1, 2}
SampleRates == {8000, 16000, 24000, 44100}
WavSamples == {-2 * SampleDen, -(SampleDen \div 2), 0, SampleDen \div 2, 2 * SampleDen}

SeqsOfLen(S, n) == [1..n -> S]

AudioBuffers ==
    UNION { { [numberOfChannels |-> c, sampleRate |-> r, length |-> f, channels |-> ch] :
                ch \in [1..c -> SeqsOfLen(WavSamples, f)] } :
            <<c, r, f>> \in ChannelCounts \X SampleRates \X (0..MaxFrames) }

\* the Int16Array element i (1-based) over little-endian bytes
Int16At(bytes, i) ==
    LET u == bytes[2 * i - 1] + 256 * bytes[2 * i]
    IN  IF u >= Int16Modulus \div 2 THEN u - Int16Modulus ELSE u

\* utils/audioUtils decodeAudioData: each 16-bit little-endian signed integer
\* v becomes the float v / 32768.0 (v * SubSteps in units of 1 / SampleDen),
\* de-interleaved into numChannels channels
DecodeSample(v) == v * SubSteps

decodeAudioData(data, sampleRate, numChannels) ==
    LET frameCount == (Len(data) \div BytesPerSample) \div numChannels
    IN  [numberOfChannels |-> numChannels,
         sampleRate       |-> sampleRate,
         length           |-> frameCount,
         channels         |-> [c \in 1..numChannels |->
                                 [i \in 1..frameCount |->
                                     DecodeSample(Int16At(data, (i - 1) * numChannels + c))]]]

\* part_000:13-20  createAudioObjects: decode at 24 kHz mono, then build the WAV
createAudioObjects(bytes) == bufferToWav(decodeAudioData(bytes, PlaybackRate, 1))

\* the synthesized audio tried: every 16-bit sample, as its two bytes
SynthPayloads == [1..BytesPerSample -> 0..255]

NoBuffer == [numberOfChannels |-> 0, sampleRate |-> 0, length |-> 0, channels |-> <<>>]
\* before bufferToWav has run there is no WAV: a record without a RIFF tag
NoWav == [bufferToWav(NoBuffer) EXCEPT !.riff = "none"]

(***************************************************************************)
(* services/geminiService.ts.  A call's outcome is                         *)
(* [threw |-> FALSE, value |-> v] or [threw |-> TRUE, message |-> m].      *)
(***************************************************************************)
Null == "<null>"

Returns(v) == [threw |-> FALSE, value |-> v, message |-> Null]
Throws(m) == [threw |-> TRUE, value |-> Null, message |-> m]

\* what ai.models.generateContent may answer to summarizeText
SummaryTexts == {"Hello world.", "Hi."}
SummarizeResponses == {[ok |-> FALSE, text |-> Null]} \cup
                      {[ok |-> TRUE, text |-> t] : t \in SummaryTexts}

\* geminiService.ts:11-25
summarizeText(response) ==
    IF response.ok
    THEN Returns(response.text)
    ELSE Throws("Failed to summarize text.")

\* what ai.models.generateContent may answer to synthesizeSpeech: the call
\* fails, or the response holds no inlineData, or it holds base64 audio
AudioB64 == "AAAA"
SynthesizeResponses == {[ok |-> FALSE, data |-> Null],
                        [ok |-> TRUE, data |-> Null],
                        [ok |-> TRUE, data |-> AudioB64]}

\* geminiService.ts:32-48  the body of the try block
synthesizeTry(response) ==
    IF ~response.ok
    THEN Throws("generateContent failed")
    ELSE IF response.data = Null
         THEN Throws("No audio data received from API.")
         ELSE Returns(response.data)

\* lines 27-53 without the check of lines 45-47: a response without audio is
\* returned as it is
synthesizeSpeechUnchecked(response) ==
    IF ~response.ok THEN Throws("Failed to synthesize speech.")
    ELSE Returns(response.data)
\* geminiService.ts:27-53  whatever the try block throws is caught and replaced
synthesizeSpeech(response) ==
    LET r == synthesizeTry(response)
    IN  IF r.threw THEN Throws("Failed to synthesize speech.") ELSE r

(***************************************************************************)
(* App (part_001).                                                         *)
(***************************************************************************)
Ids == 1..MaxStarts

MicError == "Could not access the microphone. Please check permissions and try again."
ConnectionError == "A connection error occurred. Please try again."
NoSpeechError == "No speech was detected. Please try recording again."
GenericError == "An error occurred during processing."

\* the text of a partial transcription: a blank or a letter
Whitespace == {" "}
Chars == Whitespace \cup {"a"}

\* String.prototype.trim on a sequence of characters
RECURSIVE TrimLeft(_)
TrimLeft(t) == IF t # <<>> /\ Head(t) \in Whitespace THEN TrimLeft(Tail(t)) ELSE t
RECURSIVE TrimRight(_)
TrimRight(t) == IF t # <<>> /\ t[Len(t)] \in Whitespace
                THEN TrimRight(SubSeq(t, 1, Len(t) - 1)) ELSE t
Trim(t) == TrimRight(TrimLeft(t))

\* line 127 without its trim(): !transcriptRef.current
IsNoSpeechNoTrim(t) == t = <<>>
\* part_001:127  !transcriptRef.current.trim()
IsNoSpeech(t) == Trim(t) = <<>>

\* a promise reaction: a callback given to sessionPromise.then
CloseJob(p, s, q) ==
    [kind |-> "close", session |-> p, chunk |-> 0, early |-> FALSE, src |-> s, proc |-> q]
SendJob(p, n) ==
    [kind |-> "send", session |-> p, chunk |-> n, early |-> promise[p] = "pending",
     src |-> 0, proc |-> 0]

\* a registration that puts the newest callback first
RegisterFirst(queue, job) == <<job>> \o queue
\* part_001:100  promise.then(callback): the callback joins the promise's
\* reactions behind those registered before it
Register(queue, job) == Append(queue, job)

\* the reactions of promise p after p.then(job), while p is pending
ThenReactions(p, job) ==
    IF promise[p] = "pending"
    THEN [reactions EXCEPT ![p] = Register(@, job)]
    ELSE reactions
\* the microtask queue after p.then(job): a fulfilled promise queues the
\* callback at once; a rejected one never calls it
ThenMicrotasks(p, job) ==
    IF promise[p] = "fulfilled" THEN Register(microtasks, job) ELSE microtasks

----------------------------------------------------------------------------
(* part_001:24-43  stopRecordingFlow                                       *)

\* part_001:26-29
CloseSessionStep ==
    IF sessionPromiseRef # 0
    THEN /\ reactions' = ThenReactions(sessionPromiseRef,
                CloseJob(sessionPromiseRef, mediaStreamSourceRef, scriptProcessorRef))
         /\ microtasks' = ThenMicrotasks(sessionPromiseRef,
                CloseJob(sessionPromiseRef, mediaStreamSourceRef, scriptProcessorRef))
         /\ sessionPromiseRef' = 0
    ELSE UNCHANGED <<reactions, microtasks, sessionPromiseRef>>

\* lines 30-33 without line 32: the ref is left pointing at the source
DisconnectSourceKeepRef ==
    IF mediaStreamSourceRef # 0
    THEN /\ src' = [src EXCEPT ![mediaStreamSourceRef] = "disconnected"]
         /\ UNCHANGED mediaStreamSourceRef
    ELSE UNCHANGED <<src, mediaStreamSourceRef>>
\* lines 30-33 without line 31: the ref is dropped, the source stays wired
DisconnectSourceSkipped ==
    /\ mediaStreamSourceRef' = 0
    /\ UNCHANGED src
\* part_001:30-33
DisconnectSourceStep ==
    IF mediaStreamSourceRef # 0
    THEN /\ src' = [src EXCEPT ![mediaStreamSourceRef] = "disconnected"]
         /\ mediaStreamSourceRef' = 0
    ELSE UNCHANGED <<src, mediaStreamSourceRef>>

\* part_001:34-38
DisconnectProcessorStep ==
    IF scriptProcessorRef # 0
    THEN /\ proc' = [proc EXCEPT ![scriptProcessorRef] =
                        [state |-> "disconnected", onaudioprocess |-> FALSE]]
         /\ scriptProcessorRef' = 0
    ELSE UNCHANGED <<proc, scriptProcessorRef>>

\* part_001:39-42
CloseContextStep ==
    IF audioContextRef # 0 /\ ctx[audioContextRef] # "closed"
    THEN /\ ctx' = [ctx EXCEPT ![audioContextRef] = "closed"]
         /\ audioContextRef' = 0
    ELSE UNCHANGED <<ctx, audioContextRef>>

\* history: the operations this execution performs, in program order
TeardownOps ==
    (IF sessionPromiseRef # 0 THEN <<"session.then(close)">> ELSE <<>>)
    \o (IF mediaStreamSourceRef # 0 THEN <<"source.disconnect">> ELSE <<>>)
    \o (IF scriptProcessorRef # 0 THEN <<"processor.disconnect">> ELSE <<>>)
    \o (IF audioContextRef # 0 /\ ctx[audioContextRef] # "closed"
        THEN <<"context.close">> ELSE <<>>)

Bump(f, i, field) ==
    IF i = 0 THEN f ELSE [f EXCEPT ![i][field] = IF @ < 2 THEN @ + 1 ELSE @]

\* history: how often each resource has been disconnected or closed
TeardownCounts ==
    LET a == Bump(releases, sessionPromiseRef, "close")
        b == Bump(a, mediaStreamSourceRef, "src")
        c == Bump(b, scriptProcessorRef, "proc")
    IN  IF audioContextRef # 0 /\ ctx[audioContextRef] # "closed"
        THEN Bump(c, audioContextRef, "ctx") ELSE c

stopRecordingFlow ==
    /\ isRecording' = FALSE
    /\ CloseSessionStep
    /\ DisconnectSourceStep
    /\ DisconnectProcessorStep
    /\ CloseContextStep
    /\ tdLog' = IF Len(tdLog) < 2 THEN Append(tdLog, TeardownOps)
                ELSE <<tdLog[2], TeardownOps>>
    /\ releases' = TeardownCounts

\* what stopRecordingFlow may write
teardownVars == <<isRecording, sessionPromiseRef, reactions, microtasks,
                  mediaStreamSourceRef, src, scriptProcessorRef, proc,
                  audioContextRef, ctx, releases>>

----------------------------------------------------------------------------
(* runLog, the history of one handleStopRecording run: what it read, the   *)
(* calls it made to the text & speech service, what they answered and how  *)
(* it ended.  It is emptied when the next recording is started.            *)
(* emitters[k] is the session whose onmessage appended character k of the  *)
(* transcript; stopped is the session whose recording the run in flight    *)
(* has stopped (0: no run in flight).                                      *)
Ev(e, a) == [ev |-> e, arg |-> a]

\* part_001:45-56  handleStartRecording up to its await of getUserMedia;
\* the closure's isRecording is the value the button was rendered with
handleStartRecording ==
    /\ nStarts < MaxStarts
    /\ error' = Null
    /\ finalAudio' = Null
    /\ transcriptRef' = <<>>
    /\ emitters' = <<>>
    /\ IF isRecording
       THEN /\ stopRecordingFlow
            /\ UNCHANGED <<nStarts, startPc>>
       ELSE /\ nStarts' = nStarts + 1
            /\ startPc' = [startPc EXCEPT ![nStarts + 1] = "awaitMedia"]
            /\ tdLog' = <<>>
            /\ UNCHANGED teardownVars
    /\ runLog' = <<>>
    /\ UNCHANGED <<isProcessing, processingStep, stream, promise, conn,
                   stopPc, stopped, summarizedText, nCaptured, delivered>>

\* how the rest of handleStartRecording may go: getUserMedia rejects; or it
\* resolves and line 59 (new AudioContext at 16 kHz) throws, or line 60
\* (createMediaStreamSource, for a stream of another sample rate) throws, or
\* nothing throws
MediaOutcomes == {"denied", "contextThrows", "sourceThrows", "ok"}

\* part_001:108-112  the catch block
StartCatch ==
    /\ error' = MicError
    /\ isRecording' = FALSE

\* part_001:56-112  handleStartRecording after its await, for invocation i
MediaSettled(i, outcome) ==
    /\ microtasks = <<>>
    /\ startPc[i] = "awaitMedia"
    /\ startPc' = [startPc EXCEPT ![i] = "done"]
    /\ tdLog' = <<>>
    /\ CASE outcome = "denied" ->
              /\ StartCatch
              /\ UNCHANGED <<stream, ctx, audioContextRef, src, mediaStreamSourceRef,
                             proc, scriptProcessorRef, promise, conn, sessionPromiseRef>>
         [] outcome = "contextThrows" ->
              \* line 56 done, line 57 overwritten by the catch block
              /\ stream' = [stream EXCEPT ![i] = "live"]
              /\ StartCatch
              /\ UNCHANGED <<ctx, audioContextRef, src, mediaStreamSourceRef,
                             proc, scriptProcessorRef, promise, conn, sessionPromiseRef>>
         [] outcome = "sourceThrows" ->
              \* lines 56-59 done
              /\ stream' = [stream EXCEPT ![i] = "live"]
              /\ ctx' = [ctx EXCEPT ![i] = "running"]
              /\ audioContextRef' = i
              /\ StartCatch
              /\ UNCHANGED <<src, mediaStreamSourceRef, proc, scriptProcessorRef,
                             promise, conn, sessionPromiseRef>>
         [] outcome = "ok" ->
              \* lines 56-106 done
              /\ stream' = [stream EXCEPT ![i] = "live"]
              /\ isRecording' = TRUE
              /\ ctx' = [ctx EXCEPT ![i] = "running"]
              /\ audioContextRef' = i
              /\ src' = [src EXCEPT ![i] = "connected"]
              /\ mediaStreamSourceRef' = i
              /\ proc' = [proc EXCEPT ![i] = [state |-> "connected", onaudioprocess |-> TRUE]]
              /\ scriptProcessorRef' = i
              /\ promise' = [promise EXCEPT ![i] = "pending"]
              /\ conn' = [conn EXCEPT ![i] = "connecting"]
              /\ sessionPromiseRef' = i
              /\ UNCHANGED error
    /\ UNCHANGED <<isProcessing, processingStep, finalAudio, transcriptRef, emitters, nStarts,
                   reactions, microtasks, stopPc, stopped, summarizedText, nCaptured,
                   delivered, releases, runLog>>
    /\ UNCHANGED otherVars

\* part_001:65-68  the connection of session i opens: ai.live.connect's promise
\* is fulfilled and its reactions are queued in the order they were registered
ConnectOpen(i) ==
    /\ microtasks = <<>>
    /\ conn[i] = "connecting"
    /\ conn' = [conn EXCEPT ![i] = "open"]
    /\ promise' = [promise EXCEPT ![i] = "fulfilled"]
    /\ microtasks' = reactions[i]
    /\ reactions' = [reactions EXCEPT ![i] = <<>>]
    /\ tdLog' = <<>>
    /\ UNCHANGED <<isRecording, isProcessing, processingStep, finalAudio, error,
                   transcriptRef, emitters, audioContextRef, scriptProcessorRef,
                   mediaStreamSourceRef, sessionPromiseRef, nStarts, startPc,
                   stream, ctx, src, proc, stopPc, stopped, summarizedText, nCaptured,
                   delivered, releases, runLog>>
    /\ UNCHANGED otherVars

\* lines 69-73 with an assignment instead of line 71's +=
onmessageAssign(i, text) ==
    /\ microtasks = <<>>
    /\ conn[i] \in {"open", "closing"}
    /\ Len(transcriptRef) < MaxTranscript
    /\ transcriptRef' = IF text # Null THEN <<text>> ELSE transcriptRef
    /\ emitters' = IF text # Null THEN <<i>> ELSE emitters
    /\ tdLog' = <<>>
    /\ UNCHANGED <<isRecording, isProcessing, processingStep, finalAudio, error,
                   audioContextRef, scriptProcessorRef, mediaStreamSourceRef,
                   sessionPromiseRef, nStarts, startPc, stream, ctx, src, proc,
                   promise, reactions, conn, microtasks, stopPc, stopped, summarizedText,
                   nCaptured, delivered, releases, runLog>>
    /\ UNCHANGED otherVars
\* part_001:69-73  onmessage of session i; text = Null: a message without
\* serverContent.inputTranscription
onmessage(i, text) ==
    /\ microtasks = <<>>
    /\ conn[i] \in {"open", "closing"}
    /\ Len(transcriptRef) < MaxTranscript
    /\ transcriptRef' = IF text # Null THEN Append(transcriptRef, text) ELSE transcriptRef
    /\ emitters' = IF text # Null THEN Append(emitters, i) ELSE emitters
    /\ tdLog' = <<>>
    /\ UNCHANGED <<isRecording, isProcessing, processingStep, finalAudio, error,
                   audioContextRef, scriptProcessorRef, mediaStreamSourceRef,
                   sessionPromiseRef, nStarts, startPc, stream, ctx, src, proc,
                   promise, reactions, conn, microtasks, stopPc, stopped, summarizedText,
                   nCaptured, delivered, releases, runLog>>
    /\ UNCHANGED otherVars

\* part_001:74-78  onerror of session i.  The callback is the error event of
\* the session's WebSocket, which fires when the connection fails: a failed
\* connection neither opens nor delivers a message afterwards, and its close
\* event (onclose) follows
onerror(i) ==
    /\ microtasks = <<>>
    /\ conn[i] \in {"connecting", "open", "closing"}
    /\ conn' = [conn EXCEPT ![i] = "failed"]
    /\ error' = ConnectionError
    /\ stopRecordingFlow
    /\ UNCHANGED <<isProcessing, processingStep, finalAudio, transcriptRef, emitters, nStarts,
                   startPc, stream, promise, stopPc, stopped, summarizedText,
                   nCaptured, delivered, runLog>>
    /\ UNCHANGED otherVars

\* part_001:79-82  onclose of session i: the connection is gone (closed by
\* session.close(), by the server, after a failure, or before it ever opened,
\* and then the connect promise never fulfils); the tracks of the stream that
\* this invocation captured are stopped
onclose(i) ==
    /\ microtasks = <<>>
    /\ conn[i] \in {"connecting", "open", "closing", "failed"}
    /\ conn' = [conn EXCEPT ![i] = "closed"]
    /\ promise' = [promise EXCEPT ![i] = IF @ = "pending" THEN "rejected" ELSE @]
    /\ reactions' = [reactions EXCEPT ![i] = <<>>]
    /\ stream' = [stream EXCEPT ![i] = "stopped"]
    /\ tdLog' = <<>>
    /\ UNCHANGED <<isRecording, isProcessing, processingStep, finalAudio, error,
                   transcriptRef, emitters, audioContextRef, scriptProcessorRef,
                   mediaStreamSourceRef, sessionPromiseRef, nStarts, startPc,
                   ctx, src, proc, microtasks, stopPc, stopped, summarizedText, nCaptured,
                   delivered, releases, runLog>>
    /\ UNCHANGED otherVars

\* part_001:89-103  onaudioprocess of processor i: block number nCaptured + 1
\* is encoded (EncodeBlock) and its send is registered on the promise that
\* sessionPromiseRef holds now; on a null ref the callback throws a TypeError
onaudioprocess(i) ==
    /\ microtasks = <<>>
    /\ proc[i].state = "connected"
    /\ proc[i].onaudioprocess
    /\ ctx[i] = "running"
    /\ nCaptured < MaxChunks
    /\ nCaptured' = nCaptured + 1
    /\ IF sessionPromiseRef # 0
       THEN /\ reactions' = ThenReactions(sessionPromiseRef,
                                SendJob(sessionPromiseRef, nCaptured + 1))
            /\ microtasks' = ThenMicrotasks(sessionPromiseRef,
                                SendJob(sessionPromiseRef, nCaptured + 1))
       ELSE UNCHANGED <<reactions, microtasks>>
    /\ tdLog' = <<>>
    /\ UNCHANGED <<isRecording, isProcessing, processingStep, finalAudio, error,
                   transcriptRef, emitters, audioContextRef, scriptProcessorRef,
                   mediaStreamSourceRef, sessionPromiseRef, nStarts, startPc,
                   stream, ctx, src, proc, promise, conn, stopPc, stopped, summarizedText,
                   delivered, releases, runLog>>
    /\ UNCHANGED otherVars

\* part_001:27 and 100-102  the reaction at the head of the microtask queue
\* runs: session.close() or session.sendRealtimeInput(...)
RunMicrotask ==
    /\ microtasks # <<>>
    /\ microtasks' = Tail(microtasks)
    /\ LET job == Head(microtasks)
       IN  IF job.kind = "close"
           THEN /\ conn' = [conn EXCEPT ![job.session] =
                                IF @ = "open" THEN "closing" ELSE @]
                /\ UNCHANGED delivered
           ELSE /\ delivered' = [delivered EXCEPT ![job.session] =
                                    Append(@, [chunk |-> job.chunk, early |-> job.early,
                                               conn |-> conn[job.session]])]
                /\ UNCHANGED conn
    /\ UNCHANGED <<isRecording, isProcessing, processingStep, finalAudio, error,
                   transcriptRef, emitters, audioContextRef, scriptProcessorRef,
                   mediaStreamSourceRef, sessionPromiseRef, nStarts, startPc,
                   stream, ctx, src, proc, promise, reactions, stopPc, stopped,
                   summarizedText, nCaptured, tdLog, releases, runLog>>
    /\ UNCHANGED otherVars

\* part_001:115-121  handleStopRecording up to its await of the settle delay
handleStopRecording ==
    IF ~isRecording
    THEN UNCHANGED sessionVars
    ELSE /\ stopRecordingFlow
         /\ isProcessing' = TRUE
         /\ error' = Null
         /\ stopPc' = "settle"
         /\ stopped' = sessionPromiseRef
         /\ runLog' = <<>>
         /\ UNCHANGED <<processingStep, finalAudio, transcriptRef, emitters, nStarts, startPc,
                        stream, promise, conn, summarizedText, nCaptured, delivered>>

\* part_001:143-146  the finally block
StopFinally ==
    /\ isProcessing' = FALSE
    /\ processingStep' = ""
    /\ stopPc' = "idle"
    /\ stopped' = 0
    /\ summarizedText' = Null

\* part_001:125-134  the settle delay has passed: the transcript is read
SettleElapsed ==
    /\ microtasks = <<>>
    /\ stopPc = "settle"
    /\ IF IsNoSpeech(transcriptRef)
       THEN /\ error' = NoSpeechError
            /\ StopFinally
            /\ runLog' = <<Ev("read", transcriptRef), Ev("error", NoSpeechError)>>
       ELSE /\ processingStep' = "Cleaning up transcript..."
            /\ stopPc' = "summarize"
            /\ UNCHANGED stopped
            /\ runLog' = <<Ev("read", transcriptRef), Ev("summarizeText", transcriptRef)>>
            /\ UNCHANGED <<error, isProcessing, summarizedText>>
    /\ tdLog' = <<>>
    /\ UNCHANGED <<isRecording, finalAudio, transcriptRef, emitters, audioContextRef,
                   scriptProcessorRef, mediaStreamSourceRef, sessionPromiseRef,
                   nStarts, startPc, stream, ctx, src, proc, promise, reactions,
                   conn, microtasks, nCaptured, delivered, releases>>
    /\ UNCHANGED otherVars

\* part_001:140-142  the catch block: err.message || '...'
StopCatch(message) ==
    /\ error' = IF message # "" THEN message ELSE GenericError
    /\ StopFinally

\* part_001:134-137  summarizeText has settled
SummarizeSettled(response) ==
    /\ microtasks = <<>>
    /\ stopPc = "summarize"
    /\ LET r == summarizeText(response)
       IN  IF r.threw
           THEN /\ StopCatch(r.message)
                /\ runLog' = Append(runLog, Ev("error", r.message))
           ELSE /\ summarizedText' = r.value
                /\ processingStep' = "Synthesizing audio..."
                /\ stopPc' = "synthesize"
                /\ UNCHANGED stopped
                /\ runLog' = runLog \o <<Ev("summarized", r.value),
                                         Ev("synthesizeSpeech", r.value)>>
                /\ UNCHANGED <<error, isProcessing>>
    /\ tdLog' = <<>>
    /\ UNCHANGED <<isRecording, finalAudio, transcriptRef, emitters, audioContextRef,
                   scriptProcessorRef, mediaStreamSourceRef, sessionPromiseRef,
                   nStarts, startPc, stream, ctx, src, proc, promise, reactions,
                   conn, microtasks, nCaptured, delivered, releases>>
    /\ UNCHANGED otherVars

\* how a synthesis response looks from outside
ResponseKind(response) ==
    IF ~response.ok THEN "call failed"
    ELSE IF response.data = Null THEN "no audio" ELSE "audio"

\* part_001:137-146  synthesizeSpeech has settled
SynthesizeSettled(response) ==
    /\ microtasks = <<>>
    /\ stopPc = "synthesize"
    /\ LET r == synthesizeSpeech(response)
       IN  IF r.threw
           THEN /\ StopCatch(r.message)
                /\ runLog' = runLog \o <<Ev("response", ResponseKind(response)),
                                         Ev("error", r.message)>>
                /\ UNCHANGED finalAudio
           ELSE /\ finalAudio' = r.value
                /\ StopFinally
                /\ runLog' = runLog \o <<Ev("response", ResponseKind(response)),
                                         Ev("finalAudio", r.value)>>
                /\ UNCHANGED error
    /\ tdLog' = <<>>
    /\ UNCHANGED <<isRecording, transcriptRef, emitters, audioContextRef,
                   scriptProcessorRef, mediaStreamSourceRef, sessionPromiseRef,
                   nStarts, startPc, stream, ctx, src, proc, promise, reactions,
                   conn, microtasks, nCaptured, delivered, releases>>
    /\ UNCHANGED otherVars

\* part_001:149-152  handleReset, the AudioPlayer's "New Memo" button
handleReset ==
    /\ microtasks = <<>>
    /\ finalAudio # Null
    /\ finalAudio' = Null
    /\ error' = Null
    /\ tdLog' = <<>>
    /\ UNCHANGED <<isRecording, isProcessing, processingStep, transcriptRef, emitters,
                   audioContextRef, scriptProcessorRef, mediaStreamSourceRef,
                   sessionPromiseRef, nStarts, startPc, stream, ctx, src, proc,
                   promise, reactions, conn, microtasks, stopPc, stopped, summarizedText,
                   nCaptured, delivered, releases, runLog>>
    /\ UNCHANGED otherVars

\* line 181 without its disabled={isProcessing}
ButtonEnabledWhileProcessing ==
    /\ microtasks = <<>>
    /\ finalAudio = Null
\* part_001:165 and 179-181  the record button: rendered while there is no
\* final audio, disabled while processing, bound to stop while recording
ButtonEnabled ==
    /\ microtasks = <<>>
    /\ finalAudio = Null
    /\ ~isProcessing

ClickStart ==
    /\ ButtonEnabled
    /\ ~isRecording
    /\ handleStartRecording
    /\ UNCHANGED otherVars

ClickStop ==
    /\ ButtonEnabled
    /\ isRecording
    /\ handleStopRecording
    /\ UNCHANGED otherVars

----------------------------------------------------------------------------
NoProc == [state |-> "none", onaudioprocess |-> FALSE]
NoReleases == [close |-> 0, src |-> 0, proc |-> 0, ctx |-> 0]

\* part_001:11-22  the App component as first rendered
InitSession ==
    /\ isRecording = FALSE
    /\ isProcessing = FALSE
    /\ processingStep = ""
    /\ finalAudio = Null
    /\ error = Null
    /\ transcriptRef = <<>>
    /\ audioContextRef = 0
    /\ scriptProcessorRef = 0
    /\ mediaStreamSourceRef = 0
    /\ sessionPromiseRef = 0
    /\ nStarts = 0
    /\ startPc = [i \in Ids |-> "unused"]
    /\ stream = [i \in Ids |-> "none"]
    /\ ctx = [i \in Ids |-> "none"]
    /\ src = [i \in Ids |-> "none"]
    /\ proc = [i \in Ids |-> NoProc]
    /\ promise = [i \in Ids |-> "none"]
    /\ reactions = [i \in Ids |-> <<>>]
    /\ conn = [i \in Ids |-> "none"]
    /\ microtasks = <<>>
    /\ stopPc = "idle"
    /\ summarizedText = Null
    /\ nCaptured = 0
    /\ delivered = [i \in Ids |-> <<>>]
    /\ tdLog = <<>>
    /\ releases = [i \in Ids |-> NoReleases]
    /\ runLog = <<>>
    /\ emitters = <<>>
    /\ stopped = 0

WavIdle == synthBytes = <<>> /\ wavIn = NoBuffer /\ wavOut = NoWav
PcmIdle == inputData = <<>> /\ int16 = <<>>

Init == InitSession /\ WavIdle /\ PcmIdle

Next ==
    \/ ClickStart
    \/ ClickStop
    \/ \E i \in Ids, o \in MediaOutcomes : MediaSettled(i, o)
    \/ \E i \in Ids : ConnectOpen(i)
    \/ \E i \in Ids, t \in Chars \cup {Null} : onmessage(i, t)
    \/ \E i \in Ids : onerror(i)
    \/ \E i \in Ids : onclose(i)
    \/ \E i \in Ids : onaudioprocess(i)
    \/ RunMicrotask
    \/ SettleElapsed
    \/ \E r \in SummarizeResponses : SummarizeSettled(r)
    \/ \E r \in SynthesizeResponses : SynthesizeSettled(r)
    \/ handleReset

Spec == Init /\ [][Next]_vars

----------------------------------------------------------------------------
(* AudioPlayer: bufferToWav applied to every buffer of AudioBuffers.       *)
InitWav ==
    /\ InitSession /\ PcmIdle
    /\ synthBytes = <<>> /\ wavIn \in AudioBuffers /\ wavOut = NoWav

BuildWav ==
    /\ wavOut = NoWav
    /\ wavOut' = bufferToWav(wavIn)
    /\ UNCHANGED <<synthBytes, wavIn, sessionVars, pcmVars>>

NextWav == BuildWav

SpecWav == InitWav /\ [][NextWav]_vars

----------------------------------------------------------------------------
(* AudioPlayer: createAudioObjects applied to every synthesized sample.    *)
InitPlayer ==
    /\ InitSession /\ PcmIdle
    /\ synthBytes \in SynthPayloads /\ wavIn = NoBuffer /\ wavOut = NoWav

CreateAudioObjects ==
    /\ wavOut = NoWav
    /\ wavIn' = decodeAudioData(synthBytes, PlaybackRate, 1)
    /\ wavOut' = createAudioObjects(synthBytes)
    /\ UNCHANGED <<synthBytes, sessionVars, pcmVars>>

NextPlayer == CreateAudioObjects

SpecPlayer == InitPlayer /\ [][NextPlayer]_vars

----------------------------------------------------------------------------
(* The capture callback's encoder applied to every block of FloatSamples.  *)
Blocks == UNION {SeqsOfLen(FloatSamples, n) : n \in 1..MaxBlock}

InitPcm == InitSession /\ WavIdle /\ inputData \in Blocks /\ int16 = <<>>

EncodeCaptured ==
    /\ int16 = <<>>
    /\ int16' = EncodeBlock(inputData)
    /\ UNCHANGED <<inputData, sessionVars, wavVars>>

NextPcm == EncodeCaptured

SpecPcm == InitPcm /\ [][NextPcm]_vars

(***************************************************************************)
(* The claims.                                                             *)
(***************************************************************************)
Built == wavOut.riff = "RIFF"

\* C1 (as claimed; SpecWav): for every channel count in {1,2}, every sample
\* rate and every frame count F, the buffer bufferToWav builds is exactly
\* 44 + 2 * channelCount * F bytes long.
C1_WavSize ==
    Built => wavOut.byteLength = 44 + 2 * wavIn.numberOfChannels * wavIn.length

\* C2 (as claimed; SpecWav): the data-chunk size the header declares equals
\* the number of payload bytes written after the header, and the declared
\* ChunkSize is 36 + that payload length.
C2_HeaderConsistent ==
    Built => /\ wavOut.dataSize = Len(wavOut.payload)
             /\ wavOut.chunkSize = 36 + Len(wavOut.payload)

\* the place of a teardown operation in the order the claim gives (the close
\* of the audio context is not in its list)
Rank(op) == CASE op = "source.disconnect" -> 1
              [] op = "processor.disconnect" -> 2
              [] op = "session.then(close)" -> 3
              [] OTHER -> 0

\* C3 (as claimed): every execution of stopRecordingFlow goes through
\* (1) disconnect source, (2) disconnect/clear callback, (3) close session
\* in that order; no later step is performed or issued before an earlier one.
C3_StrictOrder ==
    \A t \in 1..Len(tdLog) : \A a, b \in 1..Len(tdLog[t]) :
        (a < b /\ Rank(tdLog[t][a]) # 0 /\ Rank(tdLog[t][b]) # 0)
            => Rank(tdLog[t][a]) <= Rank(tdLog[t][b])

\* the close reactions that have been issued and not yet performed
PendingCloses ==
    {microtasks[k] : k \in {n \in 1..Len(microtasks) : microtasks[n].kind = "close"}}
    \cup UNION {{reactions[i][k] : k \in {n \in 1..Len(reactions[i]) :
                                            reactions[i][n].kind = "close"}} : i \in Ids}

\* C3 (amended): stopRecordingFlow issues the session's close first, but
\* session.close() is performed only after the execution has returned: as
\* long as a close is still to be performed, the capture source and the
\* processing callback that execution found are already disconnected and
\* cleared (the source before the callback); and the capture device is
\* released only in onclose, never before the session has closed.
C3_PerformedOrder ==
    /\ \A j \in PendingCloses :
          /\ j.src # 0 => src[j.src] = "disconnected"
          /\ j.proc # 0 => /\ proc[j.proc].state = "disconnected"
                           /\ ~proc[j.proc].onaudioprocess
    /\ \A t \in 1..Len(tdLog) : \A a, b \in 1..Len(tdLog[t]) :
          (tdLog[t][a] = "source.disconnect" /\ tdLog[t][b] = "processor.disconnect")
              => a < b
    /\ \A i \in Ids : stream[i] = "stopped" => conn[i] = "closed"

\* C3 witness: a teardown has disconnected source and callback of recording i,
\* its session.close() has been performed, and the device is not yet released
C3_Witness ==
    \E i \in Ids : /\ releases[i] = [close |-> 1, src |-> 1, proc |-> 1, ctx |-> 1]
                   /\ conn[i] = "closing"
                   /\ src[i] = "disconnected"
                   /\ proc[i].state = "disconnected"
                   /\ stream[i] = "live"

\* what invocation i acquired and still holds
Held(i) ==
    \/ stream[i] = "live"
    \/ ctx[i] = "running"
    \/ src[i] \in {"created", "connected"}
    \/ proc[i].state \in {"created", "connected"}
    \/ conn[i] \in {"connecting", "open"}

\* a release is still under way: a close is queued or waits for its
\* connection, or a closed connection has not reported onclose yet
ReleaseUnderWay ==
    \/ microtasks # <<>>
    \/ PendingCloses # {}
    \/ \E i \in Ids : conn[i] \in {"closing", "failed"}

\* C4 (as claimed): once the session is no longer recording and no release is
\* under way any more, nothing that was acquired is still held.
C4_AllReleased ==
    (~isRecording /\ ~ReleaseUnderWay) => \A i \in Ids : ~Held(i)

\* C5 (as claimed): at most one capture graph is wired and at most one live
\* session is connecting or open at any time.
C5_SingleSession ==
    /\ Cardinality({i \in Ids : src[i] = "connected"}) <= 1
    /\ Cardinality({i \in Ids : conn[i] \in {"connecting", "open"}}) <= 1

AllWhitespace(t) == \A k \in 1..Len(t) : t[k] \in Whitespace

\* C6: whenever the transcript read after the settle delay is empty or
\* whitespace-only, the run ends there with the no-speech error: it is over,
\* and it called neither summarizeText nor synthesizeSpeech.
C6_EmptyTranscriptAbort ==
    (Len(runLog) >= 1 /\ runLog[1].ev = "read" /\ AllWhitespace(runLog[1].arg))
        => /\ Len(runLog) = 2
           /\ runLog[2].ev = "error"
           /\ runLog[2].arg = NoSpeechError
           /\ stopPc = "idle"
           /\ ~isProcessing

\* C6 witness: a run that read a whitespace-only, non-empty transcript
C6_Witness ==
    /\ Len(runLog) = 2
    /\ runLog[1].ev = "read"
    /\ runLog[1].arg # <<>>
    /\ AllWhitespace(runLog[1].arg)
    /\ runLog[2].ev = "error"

\* C7 (as claimed; SpecPcm): for every sample s in [-1.0, 1.0], the Int16
\* the capture callback stores for s, decoded as v / 32768, is within
\* 1 / 32768 of s (in units of 1 / SampleDen: within SubSteps).
C7_RoundTrip ==
    \A i \in 1..Len(int16) :
        Abs(inputData[i]) <= SampleDen
            => Abs(int16[i] * SubSteps - inputData[i]) <= SubSteps

\* C8 (as claimed): the error synthesizeSpeech raises for a response without
\* audio differs from the one it raises when the remote call fails.
C8_MissingAudioSpecific ==
    \A k \in 1..Len(runLog) :
        (runLog[k].ev = "response" /\ runLog[k].arg = "no audio")
            => runLog[k + 1].arg # synthesizeSpeech([ok |-> FALSE, data |-> Null]).message

\* C9: of two executions of stopRecordingFlow in succession the second
\* performs nothing, and no resource is ever disconnected or closed twice.
C9_IdempotentTeardown ==
    /\ Len(tdLog) = 2 => tdLog[2] = <<>>
    /\ \A i \in Ids : /\ releases[i].close <= 1
                      /\ releases[i].src <= 1
                      /\ releases[i].proc <= 1
                      /\ releases[i].ctx <= 1

\* C9 witness: two executions in succession, the first a full teardown
C9_Witness ==
    /\ Len(tdLog) = 2
    /\ Len(tdLog[1]) = 4

\* C10: each session receives its chunks in the order their blocks were
\* captured, and a capture callback delivers nothing itself: it returns
\* with its send still to be performed.
C10_SendOrder ==
    /\ [](\A i \in Ids : \A a, b \in 1..Len(delivered[i]) :
            a < b => delivered[i][a].chunk < delivered[i][b].chunk)
    /\ [][nCaptured' # nCaptured => delivered' = delivered]_vars

\* C10 witness: two blocks captured before the connection had opened have
\* both reached the session
C10_Witness ==
    \E i \in Ids : /\ Len(delivered[i]) = 2
                   /\ delivered[i][1].early
                   /\ delivered[i][2].early

\* invocation i's getUserMedia rejects in this step (line 56 throws into the
\* catch block): the only way an invocation ends without a stream
CaptureDenied(i) ==
    /\ startPc[i] = "awaitMedia"
    /\ startPc'[i] = "done"
    /\ stream'[i] = "none"

\* C11 (as claimed): when getUserMedia rejects in start, the session is
\* Idle afterwards: it is not recording, that start has opened no live
\* session and created no audio graph node, the App holds no session handle
\* and no graph node, and the record button can start a recording again.
C11_CaptureFailureIdle ==
    [][\A i \in Ids : CaptureDenied(i) =>
          /\ ~isRecording'
          /\ conn'[i] = "none" /\ promise'[i] = "none"
          /\ ctx'[i] = "none" /\ src'[i] = "none" /\ proc'[i] = NoProc
          /\ sessionPromiseRef' = 0
          /\ mediaStreamSourceRef' = 0
          /\ scriptProcessorRef' = 0
          /\ ButtonEnabled'
          /\ error' = MicError]_vars

\* C12: in every post-recording run synthesizeSpeech is called only right
\* after summarizeText has returned, with exactly the text it returned; the
\* final audio is set only by a synthesizeSpeech call that was answered with
\* audio; and a run whose summarizeText failed ends with that error, without
\* any call of synthesizeSpeech.
C12_CondenseThenSynthesize ==
    /\ \A k \in 1..Len(runLog) :
          /\ runLog[k].ev = "summarized" =>
                k > 1 /\ runLog[k - 1].ev = "summarizeText"
          /\ runLog[k].ev = "synthesizeSpeech" =>
                /\ k > 1 /\ runLog[k - 1].ev = "summarized"
                /\ runLog[k].arg = runLog[k - 1].arg
          /\ runLog[k].ev = "finalAudio" =>
                /\ k > 2 /\ runLog[k - 1].ev = "response"
                /\ runLog[k - 1].arg = "audio"
                /\ runLog[k - 2].ev = "synthesizeSpeech"
          /\ (runLog[k].ev = "error" /\ k > 1 /\ runLog[k - 1].ev = "summarizeText") =>
                /\ k = Len(runLog)
                /\ \A n \in 1..Len(runLog) : runLog[n].ev # "synthesizeSpeech"
    /\ finalAudio # Null =>
          /\ runLog # <<>>
          /\ runLog[Len(runLog)].ev = "finalAudio"
          /\ runLog[Len(runLog)].arg = finalAudio

\* C12 witness: a run that condensed, synthesized and set the final audio
C12_Witness ==
    /\ Len(runLog) = 6
    /\ runLog[3].ev = "summarized"
    /\ runLog[4].ev = "synthesizeSpeech"
    /\ runLog[6].ev = "finalAudio"
    /\ finalAudio = AudioB64

\* a post-recording run ends in this step because summarizeText or
\* synthesizeSpeech threw (lines 140-146)
ServiceFailure ==
    /\ stopPc \in {"summarize", "synthesize"}
    /\ stopPc' = "idle"
    /\ runLog'[Len(runLog')].ev = "error"

\* C13 (as claimed): whenever the condense or the synthesize call fails, the
\* error is reported once, there is no final audio, and the session is
\* neither recording nor processing, with the record button ready to start.
C13_RecoveryAfterFailure ==
    [][ServiceFailure =>
          /\ error' = runLog'[Len(runLog')].arg
          /\ Cardinality({k \in 1..Len(runLog') : runLog'[k].ev = "error"}) = 1
          /\ finalAudio' = Null
          /\ ~isProcessing'
          /\ ~isRecording'
          /\ ButtonEnabled']_vars

\* session i reports a transport error in this step, while recording
TransportError(i) ==
    /\ isRecording
    /\ conn[i] # "failed"
    /\ conn'[i] = "failed"

\* the send reactions in a queue of reactions
Sends(queue) == {k \in 1..Len(queue) : queue[k].kind = "send"}

\* C14 (as claimed): whenever a live session reports an error while
\* recording, the error is surfaced, the teardown takes that session's
\* pipeline down (source and callback disconnected, context closed, close
\* issued), the session is no longer recording, and no further chunk is
\* sent: no capture callback is left to produce one, no send is waiting to
\* run, and nothing reaches the failed session any more; and no chunk is
\* ever sent twice.
C14_TransportErrorTeardown ==
    /\ [][\A i \in Ids : TransportError(i) =>
            /\ error' = ConnectionError
            /\ ~isRecording'
            /\ src'[i] = "disconnected"
            /\ proc'[i] = [state |-> "disconnected", onaudioprocess |-> FALSE]
            /\ ctx'[i] = "closed"
            /\ releases'[i].close = 1
            /\ \A j \in Ids : ~proc'[j].onaudioprocess
            /\ Sends(microtasks') = {}]_vars
    /\ [][\A i \in Ids : conn[i] = "failed" => delivered'[i] = delivered[i]]_vars
    /\ [](\A i, j \in Ids : \A a \in 1..Len(delivered[i]) : \A b \in 1..Len(delivered[j]) :
            delivered[i][a].chunk = delivered[j][b].chunk => (i = j /\ a = b))

\* handleStopRecording passes its guard in this step (lines 116-121): the
\* only step that ends a recording and clears the error
StopInvoked ==
    /\ isRecording
    /\ ~isRecording'
    /\ error' = Null

C16_SampleFidelity ==
    Built => /\ Len(wavOut.payload) = Len(synthBytes)
             /\ \A i \in 1..(Len(synthBytes) \div BytesPerSample) :
                   /\ Abs(wavOut.pcm[i] - Int16At(synthBytes, i)) <= 1
                   /\ Abs(Int16At(wavOut.payload, i) - Int16At(synthBytes, i)) <= 1

\* C16 witness: the most negative and a positive sample have gone through:
\* here the sample -32768, which decodes to -1.0
C16_Witness ==
    /\ Built
    /\ Int16At(synthBytes, 1) = -(Int16Modulus \div 2)
    /\ wavOut.pcm[1] = -(Int16Modulus \div 2)

\* C17: the transcript accumulator is emptied by every invocation of
\* handleStartRecording and by nothing else; apart from that it changes only
\* by one partial transcription being appended at its end; and the text
\* handed to summarizeText is the accumulator as it is read when the settle
\* delay has passed.
C17_TranscriptLifecycle ==
    /\ [][nStarts' # nStarts => transcriptRef' = <<>>]_vars
    /\ [][transcriptRef' # transcriptRef =>
            \/ transcriptRef' = <<>> /\ nStarts' = nStarts + 1
            \/ \E text \in Chars : transcriptRef' = Append(transcriptRef, text)]_vars
    /\ [][(stopPc = "settle" /\ stopPc' # "settle") =>
            /\ runLog'[1] = Ev("read", transcriptRef)
            /\ transcriptRef' = transcriptRef
            /\ stopPc' = "summarize" => runLog'[2] = Ev("summarizeText", transcriptRef)]_vars
    /\ [](\A k \in 1..Len(runLog) :
            runLog[k].ev = "summarizeText" =>
                /\ k = 2
                /\ runLog[1].ev = "read"
                /\ runLog[2].arg = runLog[1].arg)

\* C17 witness: two partial transcriptions were appended, the second after a
\* non-blank first, and the run handed both to summarizeText
C17_Witness ==
    /\ Len(runLog) >= 2
    /\ runLog[2].ev = "summarizeText"
    /\ runLog[2].arg = <<"a", " ">>

\* the close that a teardown issued for session i has been performed:
\* session.close() was called on it
CloseDelivered(i) ==
    /\ releases[i].close >= 1
    /\ promise[i] = "fulfilled"
    /\ \A j \in PendingCloses : j.session # i

\* C18 (as claimed): a capture callback never runs while sessionPromiseRef
\* is null, and no sendRealtimeInput reaches a session after the close that
\* a teardown issued for it has been performed.
C18_NoSendAfterClose ==
    /\ [][nCaptured' # nCaptured => sessionPromiseRef # 0]_vars
    /\ [][\A i \in Ids : delivered'[i] # delivered[i] => ~CloseDelivered(i)]_vars

\* the live session opened last (lines 65-87 of the latest start that got
\* that far); 0 before any
LatestSession ==
    IF \A i \in Ids : promise[i] = "none" THEN 0
    ELSE CHOOSE i \in Ids : /\ promise[i] # "none"
                            /\ \A j \in Ids : promise[j] # "none" => j <= i

\* C19 (as claimed): a partial transcription is appended to the accumulator
\* only when it comes from the live session opened last, never from an
\* earlier one; and when the settle delay has passed, the text handed on
\* holds only events of the session being stopped.
C19_TranscriptIsolation ==
    /\ [][Len(emitters') > Len(emitters) =>
            emitters'[Len(emitters')] = LatestSession]_vars
    /\ [][(stopPc = "settle" /\ stopPc' # "settle") =>
            \A k \in 1..Len(emitters) : emitters[k] = stopped]_vars

\* the phase the session's two flags show
Phase ==
    IF isProcessing THEN "Stopping"
    ELSE IF isRecording THEN "Recording" ELSE "Idle"

\* C20 (as claimed): isRecording and isProcessing are never both true, and
\* the phase changes only along Idle, Recording, Stopping, Idle (a recording
\* that fails goes from Recording to Idle without processing).
C20_PhaseExclusion ==
    /\ [](~(isRecording /\ isProcessing))
    /\ [][Phase' # Phase =>
            <<Phase, Phase'>> \in {<<"Idle", "Recording">>,
                                   <<"Recording", "Stopping">>,
                                   <<"Stopping", "Idle">>,
                                   <<"Recording", "Idle">>}]_vars
====
